---- MODULE Spec2Model ----
(***************************************************************************)
(* Ledger device session (ledger/src/transports/mod.rs): the Ledger        *)
(* wrapper around DefaultTransport and the LedgerAsync operations init,    *)
(* exchange and close, in the native and the wasm32 build.                 *)
(*                                                                         *)
(* The transport itself (DefaultTransport::new / create / exchange and its *)
(* release on drop), the APDU value types and the error conversions live   *)
(* in other files of the crate; they are modelled from the specification   *)
(* of the transport capability interface.                                  *)
(***************************************************************************)
EXTENDS Integers, Sequences, FiniteSets, TLC

\* ------------------------------------------------------------------ bounds
NumCallers == 2
MaxSessions == 2

Callers == 1..NumCallers
SessionIds == 1..MaxSessions

\* ------------------------------------------------------------ value types
\* Option<T> as a sequence of length at most one
None == <<>>
Some(x) == <<x>>

\* 0x9000 (success) and 0x6985 (denied by the user)
RetCodes == {36864, 27013}
Payloads == {<<1>>}

\* APDUCommand: instruction code, two parameter bytes, data payload
Commands == [ins : {1, 2}, p1 : {0}, p2 : {0}, data : {<<>>}]
NoCommand == [ins |-> 0, p1 |-> 0, p2 |-> 0, data |-> <<>>]

\* APDUAnswer: return code and optional data payload
Answers == [retcode : RetCodes, data : {None} \cup {Some(p) : p \in Payloads}]
NoAnswer == [retcode |-> 0, data |-> None]

\* LedgerError kinds
LedgerErrors == {"DeviceUnavailable", "DeviceBusy", "IOFailure", "MalformedResponse", "BridgeFailure"}

\* Result values, one record shape for all of them
Res(k, e, a, s) == [kind |-> k, err |-> e, ans |-> a, sess |-> s]
NoResult == Res("None", "", NoAnswer, 0)
Ok(a) == Res("Ok", "", a, 0)
OkSession(s) == Res("Ok", "", NoAnswer, s)
Err(e) == Res("Err", e, NoAnswer, 0)
JsErr(e) == Res("JsErr", e, NoAnswer, 0)
Panic == Res("Panic", "", NoAnswer, 0)
Unit == Res("Unit", "", NoAnswer, 0)

\* Call records
NoCall == [op |-> "none", sess |-> 0, cmd |-> NoCommand]
CallRec(o, s, c) == [op |-> o, sess |-> s, cmd |-> c]

\* Diagnostic records
LogRec(l, t, c, r) == [level |-> l, tag |-> t, cmd |-> c, res |-> r]

\* What is known of a call once it has returned
RetRec(o, s, c, tc, rx, tr, r, w, l, rf) ==
    [op |-> o, sess |-> s, cmd |-> c, txCmd |-> tc, rx |-> rx, txResp |-> tr, result |-> r,
     writes |-> w, log |-> l, relFail |-> rf]
NoRet == RetRec("none", 0, NoCommand, NoCommand, None, NoResult, NoResult, 0, <<>>, FALSE)

VARIABLES
    target,         \* "native" or "wasm": cfg(target_arch) of the build
    debugEnabled,   \* whether the debug level of the log subscriber is on
    devicePresent,  \* a matching device is plugged in
    holder,         \* session whose transport has the device open, 0 if none
    session,        \* SessionIds -> "Uninitialized" | "Connected" | "Closed"
    releases,       \* SessionIds -> number of times the transport was released
    nextId,         \* identity of the next Ledger value to be constructed
    wireOwner,      \* caller whose exchange is on the wire, 0 if none
    onWire,         \* command written to the device and not yet answered
    faulted,        \* session of the last exchange whose read failed, 0 if none
    pc,             \* Callers -> position of the caller's pending call
    call,           \* Callers -> the caller's pending call
    txCmd,          \* Callers -> command handed to the transport by the call
    writes,         \* Callers -> commands written to the device by the call
    log,            \* Callers -> diagnostic records emitted by the call so far
    ret             \* the call that returned last

vars == <<target, debugEnabled, devicePresent, holder, session, releases,
          nextId, wireOwner, onWire, faulted, pc, call, txCmd, writes, log, ret>>

devVars == <<devicePresent, holder>>
sessVars == <<session, releases, nextId>>
cfgVars == <<target, debugEnabled>>
callVars == <<pc, call, txCmd, writes, log>>

\* --------------------------------------------------- transport (capability)
\* open(): exclusive acquisition of the physical device by the platform
\* transport.  DeviceUnavailable when no device matches, DeviceBusy when a
\* session already has it open.
TransportNew(present, heldBy) ==
    IF ~present THEN Err("DeviceUnavailable")
    ELSE IF heldBy # 0 THEN Err("DeviceBusy")
    ELSE Ok(NoAnswer)

\* The bridged create(): same acquisition, its failures are foreign values;
\* the bridge itself may fail an open that the device would have granted.
TransportCreate(present, heldBy, bridgeFault) ==
    IF ~present THEN JsErr("JsNotFound")
    ELSE IF heldBy # 0 THEN JsErr("JsBusy")
    ELSE IF bridgeFault THEN JsErr("JsBridge")
    ELSE Ok(NoAnswer)

\* From<JsValue> for LedgerError: translation into the shared taxonomy.
JsInto(js) ==
    IF js.err = "JsBusy" THEN Err("DeviceBusy")
    ELSE IF js.err = "JsNotFound" THEN Err("DeviceUnavailable")
    ELSE Err("BridgeFailure")

\* Wire codec: what the device sends back is a sequence of fields; a reply
\* cut before its data field cannot be decoded.
Frames == {<<>>} \cup {<<rc>> : rc \in RetCodes}
          \cup {<<a.retcode, a.data>> : a \in Answers}

Decode(frame) ==
    IF Len(frame) < 2 THEN Err("MalformedResponse")
    ELSE Ok([retcode |-> frame[1], data |-> frame[2]])

\* APDUAnswer accessors
Retcode(a) == a.retcode
Data(a) == a.data

\* Release of the device by the transport when it is dropped.  A failure of
\* the underlying close is recorded and goes nowhere else.
TransportRelease(s, fails) ==
    /\ releases' = [releases EXCEPT ![s] = @ + 1]
    /\ holder' = IF holder = s THEN 0 ELSE holder

\* ------------------------------------------------------------ Ledger (code)
\* Variant: the result of the open is wrapped without looking at it.
LedgerInitResultUnchecked(opened, id) == OkSession(id)

\* Variant: a failed open is reported with a fixed error kind.
LedgerInitResultMasked(opened, id) ==
    IF opened.kind = "Ok" THEN OkSession(id) ELSE Err("DeviceUnavailable")

\* `Ok(Self(DefaultTransport::new()?))`: the error of the open is returned
\* as it is, and only a successful open is wrapped in a Ledger.
LedgerInitResult(opened, id) ==
    IF opened.kind = "Ok" THEN OkSession(id) ELSE Err(opened.err)

\* Variant: the foreign error of create() is passed on as it is.
LedgerInitResultWasmRaw(created, id) ==
    IF created.kind = "Ok" THEN OkSession(id) ELSE created

\* wasm32: `res.map_err(|err| err.into())` then `Ok(Self(res?))`
LedgerInitResultWasm(created, id) ==
    IF created.kind = "Ok" THEN OkSession(id) ELSE JsInto(created)

\* A Ledger value exists from the return of a successful init on.
Construct(r) ==
    /\ ret' = RetRec("init", 0, NoCommand, NoCommand, None, NoResult, r, 0, <<>>, FALSE)
    /\ IF r.kind = "Ok"
       THEN /\ session' = [session EXCEPT ![r.sess] = "Connected"]
            /\ holder' = r.sess
            /\ nextId' = nextId + 1
       ELSE UNCHANGED <<session, holder, nextId>>

\* Variant: a pending exchange does not keep the session borrowed.
BorrowedNever(s) == FALSE

\* The borrow of the session by a pending exchange
Borrowed(s) == \E c \in Callers : pc[c] # "idle" /\ call[c].op = "exchange" /\ call[c].sess = s

\* Variant: the payload is unwrapped whatever the transport returned.
ExchangeLoggedUnwrapsAll(resp, dbg) ==
    IF dbg /\ (resp.kind # "Ok" \/ Data(resp.ans) = None) THEN Panic ELSE resp

\* What the logging of the native exchange makes of the transport's result:
\* with the debug level on, `resp.data().unwrap()` is evaluated on every Ok.
ExchangeLogged(resp, dbg) ==
    IF resp.kind = "Ok" /\ dbg /\ Data(resp.ans) = None THEN Panic ELSE resp

\* wasm32: both branches only format the value.
ExchangeLoggedWasm(resp) == resp

\* The record written after the transport has completed
AfterRecord(resp, cmd) ==
    IF resp.kind = "Ok" THEN LogRec("debug", "response", cmd, resp)
    ELSE LogRec("error", "error", cmd, resp)

Emit(c, rec) ==
    IF rec.level = "debug" /\ ~debugEnabled THEN log[c] ELSE Append(log[c], rec)

\* cfg(target_arch): the exchange body compiled into the build
LedgerExchangeResult(resp) ==
    IF target = "native" THEN ExchangeLogged(resp, debugEnabled) ELSE ExchangeLoggedWasm(resp)

\* Transport exchange, second half: the response is read and decoded.
TransportRead(ok, frame) == IF ok THEN Decode(frame) ELSE Err("IOFailure")

\* Variant: another command than the caller's is handed to the transport.
DispatchedOther(packet) == [packet EXCEPT !.ins = 3 - @]

\* `self.0.exchange(packet)`: the packet of the caller is what is dispatched.
Dispatched(packet) == packet

\* Variant: close reports the failure of the release.
CloseReturnPropagates(fails) == IF fails THEN Err("IOFailure") ELSE Unit

\* `fn close(self) {}` returns the unit value whatever the release did.
CloseReturn(fails) == Unit

\* Variant: the session ends and its transport is forgotten, not dropped.
DropLedgerLeak(s, fails) ==
    /\ session' = [session EXCEPT ![s] = "Closed"]
    /\ UNCHANGED <<releases, holder>>

\* Drop of a Ledger: its only field, the transport, is dropped with it.
DropLedger(s, fails) ==
    /\ session' = [session EXCEPT ![s] = "Closed"]
    /\ TransportRelease(s, fails)

\* --------------------------------------------------------------- initial
Init ==
    /\ target \in {"native", "wasm"}
    /\ debugEnabled \in BOOLEAN
    /\ devicePresent \in BOOLEAN
    /\ holder = 0
    /\ session = [s \in SessionIds |-> "Uninitialized"]
    /\ releases = [s \in SessionIds |-> 0]
    /\ nextId = 1
    /\ wireOwner = 0
    /\ onWire = NoCommand
    /\ faulted = 0
    /\ pc = [c \in Callers |-> "idle"]
    /\ call = [c \in Callers |-> NoCall]
    /\ txCmd = [c \in Callers |-> NoCommand]
    /\ writes = [c \in Callers |-> 0]
    /\ log = [c \in Callers |-> <<>>]
    /\ ret = NoRet

\* ------------------------------------------------------------------ init
\* Ledger::init, native: DefaultTransport::new() is a synchronous call.
InitNative(c) ==
    /\ target = "native"
    /\ pc[c] = "idle"
    /\ LET r == LedgerInitResult(TransportNew(devicePresent, holder), nextId) IN
        /\ r.kind = "Ok" => nextId <= MaxSessions
        /\ Construct(r)
    /\ UNCHANGED <<cfgVars, devicePresent, releases, wireOwner, onWire, faulted, callVars>>

\* Ledger::init, wasm32: up to the await of DefaultTransport::create().
InitWasmCall(c) ==
    /\ target = "wasm"
    /\ pc[c] = "idle"
    /\ pc' = [pc EXCEPT ![c] = "creating"]
    /\ call' = [call EXCEPT ![c] = CallRec("init", 0, NoCommand)]
    /\ UNCHANGED <<cfgVars, devVars, sessVars, wireOwner, onWire, faulted, txCmd, writes, log, ret>>

\* Ledger::init, wasm32: the promise of create() settles.
InitWasmResolve(c, bridgeFault) ==
    /\ target = "wasm"
    /\ pc[c] = "creating"
    /\ LET r == LedgerInitResultWasm(TransportCreate(devicePresent, holder, bridgeFault), nextId) IN
        /\ r.kind = "Ok" => nextId <= MaxSessions
        /\ Construct(r)
    /\ pc' = [pc EXCEPT ![c] = "idle"]
    /\ call' = [call EXCEPT ![c] = NoCall]
    /\ UNCHANGED <<cfgVars, devicePresent, releases, wireOwner, onWire, faulted, txCmd, writes, log>>

\* -------------------------------------------------------------- exchange
\* Ledger::exchange up to the await: the record of the command, then the
\* call of the transport's exchange.
ExchangeCall(c, s, packet) ==
    /\ pc[c] = "idle"
    /\ session[s] = "Connected"
    /\ pc' = [pc EXCEPT ![c] = "dispatched"]
    /\ call' = [call EXCEPT ![c] = CallRec("exchange", s, packet)]
    /\ log' = [log EXCEPT ![c] =
                 IF debugEnabled THEN <<LogRec("debug", "command", packet, NoResult)>> ELSE <<>>]
    /\ txCmd' = [txCmd EXCEPT ![c] = Dispatched(packet)]
    /\ writes' = [writes EXCEPT ![c] = 0]
    /\ UNCHANGED <<cfgVars, devVars, sessVars, wireOwner, onWire, faulted, ret>>

\* Transport exchange, first half: the encoded command is written.
TransportWrite(c) ==
    /\ pc[c] = "dispatched"
    /\ wireOwner = 0
    /\ writes' = [writes EXCEPT ![c] = @ + 1]
    /\ wireOwner' = c
    /\ onWire' = txCmd[c]
    /\ pc' = [pc EXCEPT ![c] = "written"]
    /\ UNCHANGED <<cfgVars, devVars, sessVars, faulted, call, txCmd, log, ret>>

\* Ledger::exchange after the await: the transport has returned resp, the
\* outcome is recorded and resp is returned.
ExchangeFinish(c, rx, resp) ==
    LET r == LedgerExchangeResult(resp)
        l == IF r.kind = "Panic" THEN log[c] ELSE Emit(c, AfterRecord(resp, call[c].cmd))
    IN  /\ ret' = RetRec("exchange", call[c].sess, call[c].cmd, txCmd[c], rx, resp, r,
                         writes[c], l, FALSE)
        /\ pc' = [pc EXCEPT ![c] = "idle"]
        /\ call' = [call EXCEPT ![c] = NoCall]
        /\ txCmd' = [txCmd EXCEPT ![c] = NoCommand]
        /\ writes' = [writes EXCEPT ![c] = 0]
        /\ log' = [log EXCEPT ![c] = <<>>]

\* The write of the transport fails: its exchange returns the error at once.
ExchangeWriteFailed(c) ==
    /\ pc[c] = "dispatched"
    /\ wireOwner = 0
    /\ ExchangeFinish(c, None, Err("IOFailure"))
    /\ UNCHANGED <<cfgVars, devVars, sessVars, wireOwner, onWire, faulted>>

\* The read of the transport ends (with a frame, or failing).
ExchangeCompleted(c, ok, frame) ==
    /\ pc[c] = "written"
    /\ wireOwner = c
    /\ ExchangeFinish(c, IF ok THEN Some(frame) ELSE None, TransportRead(ok, frame))
    /\ wireOwner' = 0
    /\ onWire' = NoCommand
    /\ faulted' = IF ok THEN faulted ELSE call[c].sess
    /\ UNCHANGED <<cfgVars, devVars, sessVars>>

\* ----------------------------------------------------------- close, drop
\* LedgerAsync::close: takes the session by value, its body is empty.
Close(c, s, fails) ==
    /\ pc[c] = "idle"
    /\ session[s] = "Connected"
    /\ ~Borrowed(s)
    /\ DropLedger(s, fails)
    /\ ret' = RetRec("close", s, NoCommand, NoCommand, None, NoResult, CloseReturn(fails), 0, <<>>, fails)
    /\ UNCHANGED <<cfgVars, devicePresent, nextId, wireOwner, onWire, faulted, callVars>>

\* The session goes out of scope without close.
DropSession(s, fails) ==
    /\ session[s] = "Connected"
    /\ ~Borrowed(s)
    /\ DropLedger(s, fails)
    /\ UNCHANGED <<cfgVars, devicePresent, nextId, wireOwner, onWire, faulted, callVars, ret>>

\* ------------------------------------------------------------ environment
\* The device is plugged in or removed while no session has it open.
Replug ==
    /\ holder = 0
    /\ devicePresent' = ~devicePresent
    /\ UNCHANGED <<cfgVars, holder, sessVars, wireOwner, onWire, faulted, callVars, ret>>

Next ==
    \/ \E c \in Callers : InitNative(c)
    \/ \E c \in Callers : InitWasmCall(c)
    \/ \E c \in Callers, f \in BOOLEAN : InitWasmResolve(c, f)
    \/ \E c \in Callers, s \in SessionIds, p \in Commands : ExchangeCall(c, s, p)
    \/ \E c \in Callers : TransportWrite(c)
    \/ \E c \in Callers : ExchangeWriteFailed(c)
    \/ \E c \in Callers, ok \in BOOLEAN, fr \in Frames : ExchangeCompleted(c, ok, fr)
    \/ \E c \in Callers, s \in SessionIds, f \in BOOLEAN : Close(c, s, f)
    \/ \E s \in SessionIds, f \in BOOLEAN : DropSession(s, f)
    \/ Replug

Spec == Init /\ [][Next]_vars

\* The same program over a transport that never returns from an exchange:
\* the await of `self.0.exchange(packet)` is never resumed.
NextHang ==
    \/ \E c \in Callers : InitNative(c)
    \/ \E c \in Callers : InitWasmCall(c)
    \/ \E c \in Callers, f \in BOOLEAN : InitWasmResolve(c, f)
    \/ \E c \in Callers, s \in SessionIds, p \in Commands : ExchangeCall(c, s, p)
    \/ \E c \in Callers : TransportWrite(c)
    \/ \E c \in Callers, s \in SessionIds, f \in BOOLEAN : Close(c, s, f)
    \/ \E s \in SessionIds, f \in BOOLEAN : DropSession(s, f)
    \/ Replug

SpecHang == Init /\ [][NextHang]_vars

\* ================================================================ claims
Connected == {s \in SessionIds : session[s] = "Connected"}

\* Steps in which a call returns
InitReturns ==
    /\ ret'.op = "init"
    /\ ret' # ret \/ \E c \in Callers : pc[c] = "creating" /\ pc'[c] = "idle"
CloseReturns == ret'.op = "close" /\ ret' # ret
ExchangeReturns(c) == pc[c] \in {"dispatched", "written"} /\ pc'[c] = "idle"

\* C1: at most one session is Connected for the device, in every reachable
\* state of every interleaving of init, exchange, close and drop.
C1_MutualExclusion == Cardinality(Connected) <= 1

\* C1 witness: a second init was attempted, and refused, while a session is live.
C1_Witness ==
    /\ holder # 0 /\ session[holder] = "Connected"
    /\ ret.op = "init" /\ ret.result.kind = "Err"

\* Init never waits for the holder: with the device held, the native init is
\* a step that can be taken, and a pending create() can settle.
InitNeverWaits ==
    holder # 0 =>
        \A c \in Callers :
            /\ (target = "native" /\ pc[c] = "idle") => ENABLED InitNative(c)
            /\ pc[c] = "creating" => ENABLED InitWasmResolve(c, FALSE)

\* C2: an init attempted while a session holds the device completes without
\* waiting, with DeviceBusy; it creates no session and the holder's session
\* stays Connected.
C2_BusyInit ==
    /\ []InitNeverWaits
    /\ [][(InitReturns /\ holder # 0) =>
            /\ ret'.result = Err("DeviceBusy")
            /\ session' = session
            /\ nextId' = nextId
            /\ holder' = holder
            /\ session'[holder'] = "Connected"]_vars

\* C2 witness: an init has returned DeviceBusy and the holder is still live.
C2_Witness ==
    /\ ret.op = "init" /\ ret.result = Err("DeviceBusy")
    /\ holder # 0 /\ session[holder] = "Connected"
    /\ Cardinality({s \in SessionIds : session[s] # "Uninitialized"}) = 1

\* C3: pass-through.  Whenever the owned transport returns a well-formed
\* answer for the command, exchange returns exactly that answer, and the
\* command handed to the transport is the caller's command.
C3_PassThrough ==
    (ret.op = "exchange" /\ ret.txResp.kind = "Ok") =>
        /\ ret.result = ret.txResp
        /\ ret.txCmd = ret.cmd

\* C4: the logging of exchange is observational.  Whatever the transport
\* produced (an answer with or without payload, or an error), exchange
\* returns that same result.
C4_LoggingObservational ==
    ret.op = "exchange" => ret.result = ret.txResp

\* C5: a failed exchange does not poison the session.  When the write
\* succeeded and the read failed, exchange returns IOFailure and the session
\* stays Connected, holding the device; a later exchange on that session
\* whose transport I/O succeeds returns its answer.
C5_NotPoisoned ==
    [][\A c \in Callers : ExchangeReturns(c) =>
          LET s == call[c].sess IN
          /\ (pc[c] = "written" /\ ret'.rx = None) =>
                /\ ret'.writes = 1
                /\ ret'.result = Err("IOFailure")
                /\ session'[s] = "Connected"
                /\ holder' = s
          /\ (faulted = s /\ ret'.txResp.kind = "Ok") => ret'.result = ret'.txResp]_vars

\* C6: when the transport reads a truncated byte sequence, exchange
\* completes with the error MalformedResponse: no crash, no answer.
C6_Malformed ==
    (ret.op = "exchange" /\ ret.rx # None /\ Len(ret.rx[1]) < 2) =>
        ret.result = Err("MalformedResponse")

\* C6 witness: an exchange has returned on a truncated frame, with the debug
\* level on.
C6_Witness ==
    /\ ret.op = "exchange" /\ ret.rx # None /\ Len(ret.rx[1]) < 2
    /\ ret.result.kind = "Err" /\ debugEnabled

\* No exchange is pending on a session that is not Connected.
NoExchangeOnClosed ==
    \A c \in Callers :
        (pc[c] \in {"dispatched", "written"}) => session[call[c].sess] = "Connected"

\* C7: lifecycle.  A session becomes Connected only through a successful
\* init; a failed init leaves no session and the device as it was; close or
\* drop takes a Connected session to Closed; Closed is terminal; no exchange
\* is performed on a Closed session.
C7_Lifecycle ==
    /\ []NoExchangeOnClosed
    /\ [][/\ \A s \in SessionIds :
               /\ (session[s] # "Connected" /\ session'[s] = "Connected") =>
                     /\ session[s] = "Uninitialized"
                     /\ InitReturns
                     /\ ret'.result = OkSession(s)
               /\ session[s] = "Connected" => session'[s] \in {"Connected", "Closed"}
               /\ session[s] = "Closed" => session'[s] = "Closed"
               /\ session[s] = "Uninitialized" => session'[s] # "Closed"
          /\ (InitReturns /\ ret'.result.kind # "Ok") =>
               /\ ret'.result.kind = "Err"
               /\ session' = session /\ nextId' = nextId /\ holder' = holder
          /\ CloseReturns =>
               /\ session[ret'.sess] = "Connected"
               /\ session'[ret'.sess] = "Closed"
          /\ \A c \in Callers : (pc[c] = "idle" /\ pc'[c] = "dispatched") =>
               session[call'[c].sess] = "Connected"]_vars

\* C7 witness: one session has gone through Connected to Closed, a later one
\* is Connected with an exchange pending on it, and an init has failed.
C7_Witness ==
    /\ session[1] = "Closed" /\ session[2] = "Connected"
    /\ \E c \in Callers : pc[c] = "written" /\ call[c].sess = 2
    /\ ret.op = "init" /\ ret.result.kind = "Err"

\* C8: release runs exactly once per session: never before the session has
\* ended, once when it has ended by close or by drop, never twice.
C8_ReleaseOnce ==
    \A s \in SessionIds :
        /\ session[s] = "Closed" => releases[s] = 1
        /\ session[s] # "Closed" => releases[s] = 0

\* C8 witness: every session has ended and was released once; the second
\* ended by drop (no call has returned since the init that made it).
C8_Witness ==
    /\ session[1] = "Closed" /\ releases[1] = 1
    /\ session[2] = "Closed" /\ releases[2] = 1
    /\ ret.op = "init" /\ ret.result = OkSession(2)

\* C9: close never surfaces an error: also when the underlying release
\* fails, close returns the unit value and the session is Closed.
C9_CloseSilent ==
    ret.op = "close" => (ret.result = Unit /\ session[ret.sess] = "Closed")

\* C9 witness: close has returned on a session whose release failed.
C9_Witness == ret.op = "close" /\ ret.relFail /\ ret.result = Unit

\* With the device present and not held, an init can succeed.
InitCanSucceed ==
    (holder = 0 /\ devicePresent /\ nextId <= MaxSessions) =>
        \A c \in Callers :
            /\ (target = "native" /\ pc[c] = "idle") =>
                  ENABLED (InitNative(c) /\ ret'.result = OkSession(nextId))
            /\ pc[c] = "creating" =>
                  ENABLED (InitWasmResolve(c, FALSE) /\ ret'.result = OkSession(nextId))

\* C10: after close has returned on the session that held the device, no
\* session holds the device, and an init on a present device can succeed.
C10_CloseReleases ==
    /\ [][CloseReturns => (holder = ret'.sess /\ holder' = 0)]_vars
    /\ [](\A s \in SessionIds : session[s] = "Closed" => holder # s)
    /\ []InitCanSucceed

\* C10 witness: close has returned, the device is present and open in no
\* session.
C10_Witness ==
    /\ ret.op = "close" /\ session[ret.sess] = "Closed"
    /\ holder = 0 /\ devicePresent /\ nextId <= MaxSessions

\* Callers whose exchange has its command on the wire, the read pending
OnTheWire == {c \in Callers : pc[c] = "written"}

OpenOutcomes ==
    IF target = "native"
    THEN {TransportNew(devicePresent, holder)}
    ELSE {JsInto(TransportCreate(devicePresent, holder, f)) : f \in BOOLEAN}

\* C12: no internal retry.  A call of init makes one open attempt and a call
\* of exchange one transport exchange, writing at most one command to the
\* device; when the attempt fails its error is what the call returns.
C12_NoRetry ==
    /\ [](\A c \in Callers : writes[c] <= 1 /\ (pc[c] = "dispatched" => writes[c] = 0))
    /\ [](ret.op = "exchange" =>
            /\ ret.writes <= 1
            /\ ret.txResp.kind = "Err" => ret.result = ret.txResp)
    /\ [][/\ InitReturns =>
               /\ nextId' <= nextId + 1
               /\ ret'.result.kind # "Ok" => ret'.result \in OpenOutcomes
          /\ \A c \in Callers :
               /\ (pc[c] = "written" /\ pc'[c] # "written") => pc'[c] = "idle"
               /\ (pc[c] = "dispatched" /\ pc'[c] = "idle") =>
                     /\ ret'.writes = 0
                     /\ ret'.result = Err("IOFailure")
               /\ (pc[c] = "written" /\ pc'[c] = "idle") => ret'.writes = 1]_vars

\* C12 witness: an exchange whose write failed has returned IOFailure with
\* no command written, the debug level being on.
C12_Witness ==
    /\ ret.op = "exchange" /\ ret.writes = 0 /\ ret.rx = None
    /\ ret.result = Err("IOFailure") /\ debugEnabled

\* C13: init classifies its failure by the state of the device.  It fails
\* with DeviceUnavailable when no device is present, with DeviceBusy when a
\* device is present and held by a session, and succeeds only when a device
\* is present and not held.
C13_InitClassified ==
    [][InitReturns =>
         /\ ~devicePresent => ret'.result = Err("DeviceUnavailable")
         /\ (devicePresent /\ holder # 0) => ret'.result = Err("DeviceBusy")
         /\ ret'.result.kind = "Ok" => (devicePresent /\ holder = 0)
         /\ ret'.result = Err("DeviceUnavailable") => ~devicePresent
         /\ ret'.result = Err("DeviceBusy") => (devicePresent /\ holder # 0)]_vars

\* C13 witness: an init has failed with DeviceUnavailable, no device being
\* plugged in, after an earlier session was made and ended.
C13_Witness ==
    /\ ret.op = "init" /\ ret.result = Err("DeviceUnavailable")
    /\ ~devicePresent /\ holder = 0
    /\ session[1] = "Closed"

\* The record of the command written before the dispatch
CommandRecord(cmd) == LogRec("debug", "command", cmd, NoResult)

\* C14: ordering of the diagnostic records of exchange.  One record carrying
\* the command is emitted before the command is dispatched, and one more
\* after the transport has completed and before exchange returns: an error
\* record if and only if the transport returned an error, otherwise a record
\* of the answer.  Stated for a subscriber with the debug level on, where
\* every record the code writes reaches the log.
C14_RecordOrder ==
    debugEnabled =>
        /\ \A c \in Callers :
              (pc[c] \in {"dispatched", "written"}) => log[c] = <<CommandRecord(call[c].cmd)>>
        /\ ret.op = "exchange" =>
              /\ Len(ret.log) = 2
              /\ ret.log[1] = CommandRecord(ret.cmd)
              /\ ret.log[2].res = ret.txResp
              /\ ret.log[2].tag = "error" <=> ret.txResp.kind = "Err"
              /\ ret.log[2].tag = "response" <=> ret.txResp.kind = "Ok"

\* C15: in the wasm32 build every failure of the foreign create() during
\* init comes back as a LedgerError, the error of init; no foreign error
\* value reaches the caller and no session is made on that path.
C15_BridgeTranslated ==
    /\ [](ret.result.kind # "JsErr")
    /\ [][(InitReturns /\ target = "wasm" /\ ret'.result.kind # "Ok") =>
            /\ ret'.result.kind = "Err"
            /\ ret'.result.err \in LedgerErrors
            /\ ret'.result \in {JsInto(TransportCreate(devicePresent, holder, f)) : f \in BOOLEAN}
            /\ session' = session
            /\ nextId' = nextId
            /\ holder' = holder]_vars

\* C15 witness: on wasm32 an init has failed on a fault of the bridge, the
\* device being present and not held.
C15_Witness ==
    /\ target = "wasm"
    /\ ret.op = "init" /\ ret.result = Err("BridgeFailure")
    /\ devicePresent /\ holder = 0

\* An exchange of the caller is pending
Pending(c) == pc[c] \in {"dispatched", "written"}

\* C16: no timeout on exchange.  Over a transport that never returns from
\* an exchange, no exchange call completes, with an answer or with an error:
\* a pending call stays pending, and its session stays Connected, holding
\* the device, for as long.
C16_NoTimeout ==
    /\ [](ret.op # "exchange")
    /\ [](\A c \in Callers :
            Pending(c) => (session[call[c].sess] = "Connected" /\ holder = call[c].sess))
    /\ [][\A c \in Callers :
            Pending(c) => (pc'[c] \in {"dispatched", "written"} /\ call'[c] = call[c])]_vars

\* C16 witness: an exchange is on the wire, never answered, and in the
\* meantime another init was refused because the session holds the device.
C16_Witness ==
    /\ \E c \in Callers : pc[c] = "written" /\ holder = call[c].sess
    /\ ret.op = "init" /\ ret.result = Err("DeviceBusy")

\* A step of the exchange of caller c: its call, its write or its return
ExchangeStep(c) ==
    \/ pc[c] = "idle" /\ pc'[c] = "dispatched"
    \/ pc[c] = "dispatched" /\ pc'[c] = "written"
    \/ ExchangeReturns(c)

\* C17: exchange leaves the session and the lock unchanged.  From its call
\* to its return, successful or failed, the session is Connected, owns its
\* unreleased transport and is the holder of the device.
C17_ExchangeFrame ==
    /\ [](\A c \in Callers : Pending(c) =>
            /\ session[call[c].sess] = "Connected"
            /\ releases[call[c].sess] = 0
            /\ holder = call[c].sess)
    /\ [][\A c \in Callers :
            /\ ExchangeStep(c) =>
                  /\ session' = session
                  /\ releases' = releases
                  /\ holder' = holder
                  /\ nextId' = nextId
            /\ ExchangeReturns(c) =>
                  /\ session'[ret'.sess] = "Connected"
                  /\ releases'[ret'.sess] = 0
                  /\ holder' = ret'.sess
                  /\ ret'.sess = call[c].sess]_vars

\* C17 witness: an exchange on the second session has returned an answer
\* and that session is still Connected and the holder.
C17_Witness ==
    /\ ret.op = "exchange" /\ ret.sess = 2 /\ ret.result.kind = "Ok"
    /\ session[2] = "Connected" /\ holder = 2 /\ releases[2] = 0

\* C18: the lock and the sessions agree.  The device is held if and only if
\* exactly one session is Connected, and that session is the holder; an init
\* that returns a session has acquired the device and a failed init leaves
\* the device as it was.
C18_LockAgrees ==
    /\ [](IF holder = 0 THEN Connected = {} ELSE Connected = {holder})
    /\ [][InitReturns =>
            IF ret'.result.kind = "Ok"
            THEN holder = 0 /\ holder' = ret'.result.sess /\ Connected' = {holder'}
            ELSE holder' = holder /\ session' = session]_vars

\* C18 witness: the second session is Connected and the holder, the first
\* one is Closed, and an init has just failed.
C18_Witness ==
    /\ holder = 2 /\ session[1] = "Closed" /\ session[2] = "Connected"
    /\ ret.op = "init" /\ ret.result.kind = "Err"
    /\ \A c \in Callers : pc[c] = "idle"

\* C19: the native and the wasm32 body of exchange are equivalent for the
\* caller.  On the same command and the same result of the transport (an
\* answer with or without payload, or an error), both return the same
\* result after one transport exchange.
C19_VariantsAgree ==
    ret.op = "exchange" =>
        /\ ExchangeLogged(ret.txResp, debugEnabled) = ExchangeLoggedWasm(ret.txResp)
        /\ ret.writes <= 1

====
